---- MODULE Spec2Model ----
(***************************************************************************)
(* Model of src/main.py: the POST /process handler                         *)
(* (process_uploaded_files) and the deferred wipe (clear_output_file).     *)
(*                                                                         *)
(* The handler is an `async def` without any await, so one handler runs    *)
(* on the event loop at a time, from its first line to the sending of its  *)
(* response.  clear_output_file is a plain function added as a background  *)
(* task: it runs in a worker thread once the response has been sent, so    *)
(* its two file operations interleave freely with a later handler.         *)
(*                                                                         *)
(* output.json is a sequence of JSON tokens; a file handle writes at its   *)
(* own offset and opening with mode "w" truncates.                         *)
(***************************************************************************)
EXTENDS Integers, Sequences, FiniteSets, TLC

\* ---------------------------------------------------------------- bounds
MaxFiles == 2
MaxReqs == 2

Names == {"A.pdf", "B.pdf"}
Contents == {"x", "y"}
\* the uploads a client may send: two names, and two uploads that share a name
UploadedFile ==
    { [name |-> "A.pdf", content |-> "x"],
      [name |-> "B.pdf", content |-> "y"],
      [name |-> "A.pdf", content |-> "y"] }

RECURSIVE SeqsUpTo(_, _)
SeqsUpTo(S, n) ==
    IF n = 0 THEN {<<>>}
    ELSE LET shorter == SeqsUpTo(S, n - 1)
         IN  shorter \cup {Append(s, e) : s \in {t \in shorter : Len(t) = n - 1}, e \in S}

Batches == SeqsUpTo(UploadedFile, MaxFiles)
Reqs == 1..MaxReqs

\* ------------------------------------------------------- values and files
Absent == "<absent>"
Truncated == "<truncated>"
NoText == <<>>
NoExc == <<>>
NoResp == [status |-> 0, records |-> <<>>, detail |-> <<>>]

\* document_parser.extract_text_from_document: the text of the bytes at a path
extract_text_from_document(bytes) == <<"text", bytes>>

\* processor.get_structured_data: the structured record of a text
get_structured_data(text) == [field |-> text[2]]

\* detailed_ai_data['fileName'] = file.filename
SetKey(rec, k, v) == [x \in (DOMAIN rec) \cup {k} |-> IF x = k THEN v ELSE rec[x]]

\* HTTPException(status_code=500, detail=f"Error while processing {name}: {e}")
HTTPException(name, cause) == <<"HTTPException", name, cause>>
OSError == <<"OSError">>

\* the response the framework builds from what the handler returned or raised
ResponseOf(result, e) ==
    IF e = NoExc THEN [status |-> 200, records |-> result, detail |-> <<>>]
    ELSE IF e[1] = "HTTPException"
         THEN [status |-> 500, records |-> <<>>,
               detail |-> <<"Error while processing", e[2], e[3]>>]
         ELSE [status |-> 500, records |-> <<>>, detail |-> <<"Internal Server Error">>]

\* what the client has received: the status and the kind of body
Summary(r) ==
    <<r.status, IF r.detail = <<>> THEN "records" ELSE r.detail[1]>>
NotSent == <<0, "records">>
SentRecords == <<200, "records">>
SentDetail == <<500, "Error while processing">>
SentPlain == <<500, "Internal Server Error">>

\* ------------------------------------------------------------ JSON tokens
JsonObject(rec) == <<"{", rec.field, rec.fileName>>
ParseObject(tok) == [field |-> tok[2], fileName |-> tok[3]]

RECURSIVE JsonItems(_)
JsonItems(list) ==
    IF list = <<>> THEN <<>>
    ELSE IF Len(list) = 1 THEN <<JsonObject(list[1])>>
    ELSE <<JsonObject(list[1]), <<",">>>> \o JsonItems(Tail(list))

\* json.dump(all_detailed_data, f, ...)
JsonDump(list) == <<<<"[">>>> \o JsonItems(list) \o <<<<"]">>>>

\* f.write("[]")
EmptyArray == << <<"[">>, <<"]">> >>

\* a write of `chunk` through a handle whose offset is `pos`
WriteAt(content, pos, chunk) ==
    LET end == pos + Len(chunk)
        n == IF Len(content) > end THEN Len(content) ELSE end
    IN  [i \in 1..n |->
            IF i > pos /\ i <= end THEN chunk[i - pos]
            ELSE IF i <= Len(content) THEN content[i]
            ELSE <<" ">>]

\* a worker process that has no request
PeerIdle == [pc |-> "idle", file |-> [name |-> "", content |-> ""], read |-> ""]

\* ------------------------------------------------------------------ state
VARIABLES
    nreq,               \* requests received so far; the handler running is request nreq
    pc,                 \* position of the handler on the event loop
    files,              \* files: List[UploadFile]
    idx,                \* position of the for loop
    uploads,            \* the uploads directory: name -> bytes
    closed,             \* positions whose file.file is closed
    staged,             \* positions whose staging was attempted in this call
    raw_text,
    all_detailed_data,
    exc,                \* the exception in flight
    fpos,               \* offset of the handle on output.json held by the handler
    art,                \* content of output.json
    resp,               \* the response of the running handler, once computed
    sent,               \* request -> status and kind of body of the response sent
    wipe,               \* request -> state of its background task
    overlap,            \* a wipe changed output.json while the handler's handle was open
    peer                \* the per-file step of a request in a second worker process

vars == <<nreq, pc, files, idx, uploads, closed, staged, raw_text,
          all_detailed_data, exc, fpos, art, resp, sent, wipe, overlap, peer>>

locals == <<files, idx, closed, staged, raw_text, all_detailed_data, exc, fpos>>

Init ==
    /\ nreq = 0
    /\ pc = "idle"
    /\ files = <<>>
    /\ idx = 0
    /\ uploads = [n \in Names |-> Absent]
    /\ closed = {}
    /\ staged = {}
    /\ raw_text = NoText
    /\ all_detailed_data = <<>>
    /\ exc = NoExc
    /\ fpos = 0
    /\ art = EmptyArray
    /\ resp = NoResp
    /\ sent = [r \in Reqs |-> NotSent]
    /\ wipe = [r \in Reqs |-> "none"]
    /\ overlap = FALSE
    /\ peer = PeerIdle

\* ---------------------------------------------------------------- handler
cur == nreq
file == files[idx]
\* a fixed staging path instead of one made from the name of the upload
file_path_Fixed == "A.pdf"
file_path == file.name

\* Begin with an early return for an empty list: `if not files: return []`
\* ahead of the dump
Begin_SkipEmpty ==
    /\ pc = "idle"
    /\ nreq < MaxReqs
    /\ \E fs \in Batches :
        /\ files' = fs
        /\ pc' = IF fs = <<>> THEN "schedule" ELSE "stage"
        /\ idx' = IF fs = <<>> THEN 0 ELSE 1
    /\ nreq' = nreq + 1
    /\ all_detailed_data' = <<>>
    /\ UNCHANGED <<uploads, closed, staged, raw_text, exc, fpos, art, resp, sent, wipe, overlap>>
    /\ UNCHANGED peer

\* lines 59-75: a request arrives and the handler starts on the free event loop
Begin ==
    /\ pc = "idle"
    /\ nreq < MaxReqs
    /\ \E fs \in Batches :
        /\ files' = fs
        /\ pc' = IF fs = <<>> THEN "persist_open" ELSE "stage"
        /\ idx' = IF fs = <<>> THEN 0 ELSE 1
    /\ nreq' = nreq + 1
    /\ all_detailed_data' = <<>>
    /\ UNCHANGED <<uploads, closed, staged, raw_text, exc, fpos, art, resp, sent, wipe, overlap>>
    /\ UNCHANGED peer

\* lines 87-93: except Exception as e: raise HTTPException(500, ...)
Caught(cause) ==
    /\ exc' = HTTPException(file.name, cause)
    /\ pc' = "release"

\* lines 78-79: open(file_path, "wb") and shutil.copyfileobj
Stage ==
    /\ pc = "stage"
    /\ staged' = staged \cup {idx}
    /\ \/ /\ uploads' = [uploads EXCEPT ![file_path] = file.content]
          /\ pc' = "extract"
          /\ UNCHANGED <<exc, closed>>
       \/ \* open fails: nothing is created; or the copy fails part-way
          /\ \E left \in {uploads[file_path], Truncated} :
                uploads' = [uploads EXCEPT ![file_path] = left]
          /\ Caught("StagingError")
          /\ UNCHANGED closed
       \/ \* the upload's stream had been closed before the call: the staged
          \* file is created and the copy raises on the first read
          /\ uploads' = [uploads EXCEPT ![file_path] = Truncated]
          /\ closed' = closed \cup {idx}
          /\ Caught("StagingError")
    /\ UNCHANGED <<nreq, files, idx, raw_text, all_detailed_data, fpos,
                   art, resp, sent, wipe, overlap>>
    /\ UNCHANGED peer

\* Extract given the path of the first file of the batch instead of the
\* path of the file of this iteration
Extract_FirstFile ==
    /\ pc = "extract"
    /\ \/ /\ raw_text' = extract_text_from_document(uploads[files[1].name])
          /\ pc' = "structure"
          /\ UNCHANGED exc
       \/ /\ Caught("ExtractionError")
          /\ UNCHANGED raw_text
    /\ UNCHANGED <<nreq, files, idx, uploads, closed, staged, all_detailed_data,
                   fpos, art, resp, sent, wipe, overlap>>
    /\ UNCHANGED peer

\* line 81: raw_text = extract_text_from_document(file_path)
Extract ==
    /\ pc = "extract"
    /\ \/ /\ uploads[file_path] # Absent
          /\ raw_text' = extract_text_from_document(uploads[file_path])
          /\ pc' = "structure"
          /\ UNCHANGED exc
       \/ /\ Caught("ExtractionError")
          /\ UNCHANGED raw_text
    /\ UNCHANGED <<nreq, files, idx, uploads, closed, staged, all_detailed_data,
                   fpos, art, resp, sent, wipe, overlap>>
    /\ UNCHANGED peer

\* Structure with the record put in front of the list instead of appended
Structure_Prepend ==
    /\ pc = "structure"
    /\ \/ /\ all_detailed_data' =
                <<SetKey(get_structured_data(raw_text), "fileName", file.name)>>
                    \o all_detailed_data
          /\ pc' = "release"
          /\ UNCHANGED exc
       \/ /\ Caught("StructuringError")
          /\ UNCHANGED all_detailed_data
    /\ UNCHANGED <<nreq, files, idx, uploads, closed, staged, raw_text, fpos,
                   art, resp, sent, wipe, overlap>>
    /\ UNCHANGED peer

\* lines 82-85: structure, set fileName, append
Structure ==
    /\ pc = "structure"
    /\ \/ /\ all_detailed_data' =
                Append(all_detailed_data,
                       SetKey(get_structured_data(raw_text), "fileName", file.name))
          /\ pc' = "release"
          /\ UNCHANGED exc
       \/ /\ Caught("StructuringError")
          /\ UNCHANGED all_detailed_data
    /\ UNCHANGED <<nreq, files, idx, uploads, closed, staged, raw_text, fpos,
                   art, resp, sent, wipe, overlap>>
    /\ UNCHANGED peer

\* what follows the finally block, for the three variants of Release below
AfterRelease ==
    IF exc # NoExc
    THEN /\ pc' = "raised"
         /\ resp' = ResponseOf(all_detailed_data, exc)
         /\ UNCHANGED idx
    ELSE IF idx < Len(files)
    THEN /\ pc' = "stage"
         /\ idx' = idx + 1
         /\ UNCHANGED resp
    ELSE /\ pc' = "persist_open"
         /\ UNCHANGED <<idx, resp>>

\* Release with the close at the end of the try body: skipped when a step
\* has failed
Release_CloseOnSuccess ==
    /\ pc = "release"
    /\ closed' = IF exc = NoExc THEN closed \cup {idx} ELSE closed
    /\ uploads' = [uploads EXCEPT ![file_path] = Absent]
    /\ raw_text' = NoText
    /\ AfterRelease
    /\ UNCHANGED <<nreq, files, staged, all_detailed_data, exc, fpos, art, sent, wipe,
                   overlap>>
    /\ UNCHANGED peer

\* Release without the os.remove
Release_NoRemove ==
    /\ pc = "release"
    /\ closed' = closed \cup {idx}
    /\ raw_text' = NoText
    /\ AfterRelease
    /\ UNCHANGED <<nreq, files, staged, all_detailed_data, exc, fpos, art, sent, wipe,
                   overlap, uploads>>
    /\ UNCHANGED peer

\* Release with the removal in the try body: skipped when a step has failed
Release_KeepOnError ==
    /\ pc = "release"
    /\ closed' = closed \cup {idx}
    /\ uploads' = IF exc = NoExc THEN [uploads EXCEPT ![file_path] = Absent] ELSE uploads
    /\ raw_text' = NoText
    /\ AfterRelease
    /\ UNCHANGED <<nreq, files, staged, all_detailed_data, exc, fpos, art, sent, wipe, overlap>>
    /\ UNCHANGED peer

\* Release with the raise put off to the end of the loop: the loop goes on
\* with the files after the one that failed
Release_Continue ==
    /\ pc = "release"
    /\ closed' = closed \cup {idx}
    /\ uploads' = [uploads EXCEPT ![file_path] = Absent]
    /\ raw_text' = NoText
    /\ IF idx < Len(files)
       THEN /\ pc' = "stage"
            /\ idx' = idx + 1
            /\ UNCHANGED resp
       ELSE IF exc # NoExc
       THEN /\ pc' = "raised"
            /\ resp' = ResponseOf(all_detailed_data, exc)
            /\ UNCHANGED idx
       ELSE /\ pc' = "persist_open"
            /\ UNCHANGED <<idx, resp>>
    /\ UNCHANGED <<nreq, files, staged, all_detailed_data, exc, fpos, art, sent, wipe, overlap>>
    /\ UNCHANGED peer

\* Release with the dump indented into the loop: output.json is rewritten
\* after every file
Release_PersistEach ==
    /\ pc = "release"
    /\ closed' = closed \cup {idx}
    /\ uploads' = [uploads EXCEPT ![file_path] = Absent]
    /\ raw_text' = NoText
    /\ art' = JsonDump(all_detailed_data)
    /\ AfterRelease
    /\ UNCHANGED <<nreq, files, staged, all_detailed_data, exc, fpos, sent, wipe, overlap>>
    /\ UNCHANGED peer

\* lines 94-98: finally: close the stream, remove the staged file; then the
\* exception leaves the handler, or the loop goes on, or the loop ends
Release ==
    /\ pc = "release"
    /\ closed' = IF idx \in closed THEN closed ELSE closed \cup {idx}
    /\ uploads' = [uploads EXCEPT ![file_path] = Absent]
    /\ raw_text' = NoText
    /\ AfterRelease
    /\ UNCHANGED <<nreq, files, staged, all_detailed_data, exc, fpos, art, sent, wipe, overlap>>
    /\ UNCHANGED peer

\* line 100: open("output.json", "w") truncates the file, or fails
PersistOpen ==
    /\ pc = "persist_open"
    /\ \/ /\ art' = <<>>
          /\ fpos' = 0
          /\ pc' = "persist_write"
          /\ UNCHANGED <<exc, resp>>
       \/ /\ exc' = OSError
          /\ resp' = ResponseOf(all_detailed_data, OSError)
          /\ pc' = "raised"
          /\ UNCHANGED <<art, fpos>>
    /\ UNCHANGED <<nreq, files, idx, uploads, closed, staged, raw_text,
                   all_detailed_data, sent, wipe>>
    /\ overlap' = FALSE
    /\ UNCHANGED peer

\* the buffer of a handle is flushed before the close only when it is full,
\* and of the tokens only a record is long enough to fill it
FillsBuffer(chunk) == \E i \in 1..Len(chunk) : chunk[i][1] = "{"

\* line 101: json.dump writes through the buffered handle, which flushes the
\* next part of the text at its offset; a flush may fail; the last one closes
PersistWrite ==
    /\ pc = "persist_write"
    /\ LET text == JsonDump(all_detailed_data)
       IN  \/ \E k \in 1..(Len(text) - fpos) :
                /\ fpos + k = Len(text) \/ FillsBuffer(SubSeq(text, fpos + 1, fpos + k))
                /\ art' = WriteAt(art, fpos, SubSeq(text, fpos + 1, fpos + k))
                /\ fpos' = fpos + k
                /\ pc' = IF fpos + k = Len(text) THEN "schedule" ELSE "persist_write"
                /\ UNCHANGED <<exc, resp>>
           \/ /\ exc' = OSError
              /\ resp' = ResponseOf(all_detailed_data, OSError)
              /\ pc' = "raised"
              /\ UNCHANGED <<art, fpos>>
    /\ UNCHANGED <<nreq, files, idx, uploads, closed, staged, raw_text,
                   all_detailed_data, sent, wipe, overlap>>
    /\ UNCHANGED peer

\* ScheduleReturn without the add_task: no wipe follows the response
ScheduleReturn_NoTask ==
    /\ pc = "schedule"
    /\ resp' = ResponseOf(all_detailed_data, NoExc)
    /\ pc' = "returned"
    /\ UNCHANGED <<nreq, files, idx, uploads, closed, staged, raw_text,
                   all_detailed_data, exc, fpos, art, sent, wipe, overlap>>
    /\ UNCHANGED peer

\* ScheduleReturn with the wipe started at once instead of handed to the
\* background tasks of the response
ScheduleReturn_RunNow ==
    /\ pc = "schedule"
    /\ wipe' = [wipe EXCEPT ![cur] = "ready"]
    /\ resp' = ResponseOf(all_detailed_data, NoExc)
    /\ pc' = "returned"
    /\ UNCHANGED <<nreq, files, idx, uploads, closed, staged, raw_text,
                   all_detailed_data, exc, fpos, art, sent, overlap>>
    /\ UNCHANGED peer

\* lines 103-105: background_tasks.add_task(clear_output_file); return
ScheduleReturn ==
    /\ pc = "schedule"
    /\ wipe' = [wipe EXCEPT ![cur] = "scheduled"]
    /\ resp' = ResponseOf(all_detailed_data, NoExc)
    /\ pc' = "returned"
    /\ UNCHANGED <<nreq, files, idx, uploads, closed, staged, raw_text,
                   all_detailed_data, exc, fpos, art, sent, overlap>>
    /\ UNCHANGED peer

\* the framework sends the response, then starts the background tasks of the
\* response; the handler's frame is gone
Respond ==
    /\ pc \in {"returned", "raised"}
    /\ sent' = [sent EXCEPT ![cur] = Summary(resp)]
    /\ wipe' = [wipe EXCEPT ![cur] = IF @ = "scheduled" THEN "ready" ELSE @]
    /\ pc' = "idle"
    /\ resp' = NoResp
    /\ files' = <<>>
    /\ idx' = 0
    /\ closed' = {}
    /\ staged' = {}
    /\ all_detailed_data' = <<>>
    /\ exc' = NoExc
    /\ fpos' = 0
    /\ overlap' = FALSE
    /\ UNCHANGED <<nreq, uploads, raw_text, art>>
    /\ UNCHANGED peer

\* ------------------------------------------------------- clear_output_file
\* WipeOpen without the try/except: the exception leaves the task
WipeOpen_NoTry(r) ==
    /\ wipe[r] = "ready"
    /\ \/ /\ art' = <<>>
          /\ wipe' = [wipe EXCEPT ![r] = "open"]
       \/ /\ wipe' = [wipe EXCEPT ![r] = "escaped"]
          /\ UNCHANGED art
    /\ overlap' = (overlap \/ (pc = "persist_write" /\ art' # art))
    /\ UNCHANGED <<nreq, pc, locals, uploads, resp, sent>>
    /\ UNCHANGED peer

\* WipeOpen with a mode that does not truncate ("r+")
WipeOpen_NoTruncate(r) ==
    /\ wipe[r] = "ready"
    /\ \/ /\ art' = art
          /\ wipe' = [wipe EXCEPT ![r] = "open"]
       \/ /\ wipe' = [wipe EXCEPT ![r] = "failed"]
          /\ UNCHANGED art
    /\ overlap' = (overlap \/ (pc = "persist_write" /\ art' # art))
    /\ UNCHANGED <<nreq, pc, locals, uploads, resp, sent>>
    /\ UNCHANGED peer

\* line 51: open(file_path, "w"); lines 54-55: any exception is printed
WipeOpen(r) ==
    /\ wipe[r] = "ready"
    /\ \/ /\ art' = <<>>
          /\ wipe' = [wipe EXCEPT ![r] = "open"]
       \/ /\ wipe' = [wipe EXCEPT ![r] = "failed"]
          /\ UNCHANGED art
    /\ overlap' = (overlap \/ (pc = "persist_write" /\ art' # art))
    /\ UNCHANGED <<nreq, pc, locals, uploads, resp, sent>>
    /\ UNCHANGED peer

\* WipeWrite that starts the wipe over when the write fails
WipeWrite_Retry(r) ==
    /\ wipe[r] = "open"
    /\ \/ /\ art' = WriteAt(art, 0, EmptyArray)
          /\ wipe' = [wipe EXCEPT ![r] = "done"]
       \/ /\ wipe' = [wipe EXCEPT ![r] = "ready"]
          /\ UNCHANGED art
    /\ overlap' = (overlap \/ (pc = "persist_write" /\ art' # art))
    /\ UNCHANGED <<nreq, pc, locals, uploads, resp, sent>>
    /\ UNCHANGED peer

\* line 52: f.write("[]") and the close that flushes it
WipeWrite(r) ==
    /\ wipe[r] = "open"
    /\ \/ /\ art' = WriteAt(art, 0, EmptyArray)
          /\ wipe' = [wipe EXCEPT ![r] = "done"]
       \/ /\ wipe' = [wipe EXCEPT ![r] = "failed"]
          /\ UNCHANGED art
    /\ overlap' = (overlap \/ (pc = "persist_write" /\ art' # art))
    /\ UNCHANGED <<nreq, pc, locals, uploads, resp, sent>>
    /\ UNCHANGED peer

Wipe == \E r \in Reqs : WipeOpen(r) \/ WipeWrite(r)

Next ==
    \/ Begin
    \/ Stage
    \/ Extract
    \/ Structure
    \/ Release
    \/ PersistOpen
    \/ PersistWrite
    \/ ScheduleReturn
    \/ Respond
    \/ Wipe

Spec == Init /\ [][Next]_vars

TypeOK ==
    /\ nreq \in 0..MaxReqs
    /\ pc \in {"idle", "stage", "extract", "structure", "release", "persist_open",
               "persist_write", "schedule", "returned", "raised"}
    /\ files \in Batches
    /\ idx \in 0..MaxFiles
    /\ closed \subseteq 1..MaxFiles
    /\ staged \subseteq 1..MaxFiles
    /\ \A n \in Names : uploads[n] \in Contents \cup {Absent, Truncated}
    /\ sent \in [Reqs -> {NotSent, SentRecords, SentDetail, SentPlain}]
    /\ wipe \in [Reqs -> {"none", "scheduled", "ready", "open", "done", "failed"}]
    /\ overlap \in BOOLEAN
    /\ peer.pc \in {"idle", "extract", "release", "done"}

\* ------------------------------------------------------------------ claims
\* the record the pipeline owes for an uploaded file
RecordOf(f) ==
    SetKey(get_structured_data(extract_text_from_document(f.content)), "fileName", f.name)

Expected(fs) == [i \in 1..Len(fs) |-> RecordOf(fs[i])]

PerFile == {"stage", "extract", "structure", "release"}
Persisting == {"persist_open", "persist_write", "schedule"}
FileFailed == exc # NoExc /\ exc[1] = "HTTPException"

\* C1: when every file of a non-empty batch has been staged, extracted and
\* structured, the list built has one record per input file, the i-th being
\* the Structurer's record of the i-th file with fileName set to its name,
\* and that list is what process returns.
C1_ResultPerFileInOrder ==
    /\ (pc \in Persisting \cup {"returned"} /\ files # <<>>) =>
          /\ Len(all_detailed_data) = Len(files)
          /\ all_detailed_data = Expected(files)
          /\ \A i \in 1..Len(files) : all_detailed_data[i].fileName = files[i].name
    /\ pc = "returned" =>
          /\ resp.status = 200
          /\ resp.records = all_detailed_data
          /\ resp.detail = <<>>

C1_Witness ==
    /\ pc = "returned"
    /\ Len(files) = 2
    /\ files[1].name = files[2].name
    /\ files[1].content # files[2].content
    /\ resp.records[1] # resp.records[2]

\* C2: once process has returned or raised, the uploads directory holds no
\* staged file, whichever step failed or succeeded.
C2_NoStagedFileAfterReturn ==
    pc \in {"returned", "raised", "idle"} => \A n \in Names : uploads[n] = Absent

C2_Witness ==
    /\ pc = "raised"
    /\ FileFailed
    /\ exc[3] = "ExtractionError"
    /\ idx = 2
    /\ staged = {1, 2}

\* C3: from the moment the N-th file fails, files 1..N-1 are fully processed,
\* no file after N is staged, the handler only releases file N and raises,
\* and the response is a 500 that names file N and the cause and carries no
\* record.
C3_FailFast ==
    FileFailed =>
        /\ pc \in {"release", "raised"}
        /\ idx \in 1..Len(files)
        /\ staged = 1..idx
        /\ closed \subseteq 1..idx
        /\ all_detailed_data = Expected(SubSeq(files, 1, idx - 1))
        /\ exc[2] = files[idx].name
        /\ exc[3] \in {"StagingError", "ExtractionError", "StructuringError"}
        /\ pc = "raised" =>
              /\ closed = 1..idx
              /\ resp.status = 500
              /\ resp.detail = <<"Error while processing", files[idx].name, exc[3]>>
              /\ resp.records = <<>>

C3_Witness ==
    /\ pc = "raised"
    /\ FileFailed
    /\ idx = 1
    /\ Len(files) = 2
    /\ exc[3] = "StructuringError"

\* C4: no step of the per-file loop, and no step of a call in which a file
\* failed, writes output.json; the handler reaches persist only with every
\* file of the batch processed and no exception in flight.
C4_FailedBatchLeavesArtifact ==
    /\ [](pc \in Persisting => (exc = NoExc /\ Len(all_detailed_data) = Len(files)))
    /\ [][((pc \in PerFile \/ FileFailed) /\ pc' # pc) => art' = art]_vars

C4_Witness ==
    /\ pc = "raised"
    /\ FileFailed
    /\ nreq = 2
    /\ idx = 2
    /\ Len(art) > 2

\* C5: the wipe of a batch is scheduled only once the persist of the batch is
\* complete, it does not start before the response of the batch is sent, and
\* a response of a successful batch is sent only after persist and schedule.
C5_PersistRespondWipe ==
    \A r \in Reqs :
        /\ wipe[r] # "none" =>
              \/ r < nreq
              \/ r = nreq /\ pc \in {"returned", "idle"}
        /\ (r = nreq /\ wipe[r] = "scheduled") =>
              /\ pc = "returned"
              /\ fpos = Len(JsonDump(all_detailed_data))
        /\ wipe[r] \notin {"none", "scheduled"} => sent[r] = SentRecords
        /\ sent[r] = SentRecords => wipe[r] \notin {"none", "scheduled"}
        /\ (r = nreq /\ pc \in PerFile \cup Persisting) => wipe[r] = "none"

C5_Witness ==
    /\ wipe[1] = "done"
    /\ sent[1] = SentRecords
    /\ art = EmptyArray

\* ------------------------------------------------- shape of output.json
\* the text is a JSON array of record objects
IsJsonArray(text) ==
    /\ Len(text) >= 2
    /\ (Len(text) = 2 \/ Len(text) % 2 = 1)
    /\ text[1] = <<"[">>
    /\ text[Len(text)] = <<"]">>
    /\ \A i \in 2..(Len(text) - 1) :
          IF i % 2 = 0 THEN Len(text[i]) = 3 /\ text[i][1] = "{"
          ELSE text[i] = <<",">>

\* json.load of a well-formed text
ParseArray(text) == [i \in 1..((Len(text) - 1) \div 2) |-> ParseObject(text[2 * i])]

\* no handler is running and no background task is waiting or running
Steady == pc = "idle" /\ \A r \in Reqs : wipe[r] \in {"none", "done", "failed"}
NoPersistFailed == \A r \in Reqs : sent[r] # SentPlain
PersistCompletes == pc = "persist_write" /\ pc' = "schedule"
WipeStep == wipe' # wipe /\ pc' = pc

C7_OnlyArraysWritten == IsJsonArray(art)

\* C8: the response of every failed call is a 500 that carries the name of a
\* file and a cause, and no record.
C8_ErrorNamesFileAndCause ==
    pc = "raised" =>
        /\ resp.status = 500
        /\ resp.records = <<>>
        /\ Len(resp.detail) = 3
        /\ resp.detail[2] \in Names
        /\ resp.detail[3] \in {"StagingError", "ExtractionError", "StructuringError",
                               "PersistenceError"}

\* C9: a step of the wipe, failing or not, ends in the task's own state
\* (open, done, or failed and logged) and leaves the handler, its response
\* and the responses already sent as they are; a wipe that failed stays
\* failed.
C9_WipeErrorContained ==
    /\ [](\A r \in Reqs : wipe[r] \in {"none", "scheduled", "ready", "open", "done", "failed"})
    /\ [][WipeStep =>
            /\ UNCHANGED <<nreq, pc, locals, uploads, resp, sent>>
            /\ \A r \in Reqs : wipe[r] = "failed" => wipe'[r] = "failed"]_vars

C9_Witness ==
    /\ wipe[1] = "failed"
    /\ nreq = 2
    /\ pc = "returned"
    /\ resp.status = 200
    /\ sent[1] = SentRecords

\* C10: the step that completes persist leaves output.json equal to the
\* serialized result of the call, which is the body of its response.
C10_PersistReplaces ==
    /\ [](pc = "returned" => resp.records = all_detailed_data)
    /\ [][PersistCompletes =>
             (IsJsonArray(art') /\ ParseArray(art') = all_detailed_data)]_vars

\* the handler is running, or has ended and not answered yet
InHandler == pc # "idle"

\* C11: a call with an empty list stages nothing and goes straight to
\* persist; the flush that completes persist leaves output.json as the empty
\* array, and the call returns 200 with an empty list once that is written.
C11_EmptyBatch ==
    /\ []((InHandler /\ files = <<>>) =>
            /\ pc \in Persisting \cup {"returned", "raised"}
            /\ staged = {}
            /\ \A n \in Names : uploads[n] = Absent
            /\ all_detailed_data = <<>>
            /\ pc \in {"schedule", "returned"} => fpos = Len(EmptyArray)
            /\ pc = "returned" => resp = [status |-> 200, records |-> <<>>, detail |-> <<>>]
            /\ pc = "raised" => exc = OSError)
    /\ [][(PersistCompletes /\ files = <<>>) => art' = EmptyArray]_vars

C11_Witness ==
    /\ pc = "returned"
    /\ files = <<>>
    /\ nreq = 2
    /\ resp.status = 200
    /\ resp.records = <<>>
    /\ art = EmptyArray
    /\ wipe[1] = "failed"

\* ------------------------------------------- clear_output_file called twice
\* what output.json may hold when a wipe starts: the dump of any batch's
\* result, whole or cut short
ArtContents ==
    UNION { {SubSeq(JsonDump(Expected(b)), 1, k) : k \in 0..Len(JsonDump(Expected(b)))}
            : b \in Batches }

InitWipe ==
    /\ nreq = 0
    /\ pc = "idle"
    /\ files = <<>>
    /\ idx = 0
    /\ uploads = [n \in Names |-> Absent]
    /\ closed = {}
    /\ staged = {}
    /\ raw_text = NoText
    /\ all_detailed_data = <<>>
    /\ exc = NoExc
    /\ fpos = 0
    /\ art \in ArtContents
    /\ resp = NoResp
    /\ sent = [r \in Reqs |-> NotSent]
    /\ wipe = [r \in Reqs |-> IF r = 1 THEN "ready" ELSE "none"]
    /\ overlap = FALSE
    /\ peer = PeerIdle

\* clear_output_file() is called again as soon as the first call has returned
CallWipeAgain ==
    /\ wipe[1] \in {"done", "failed"}
    /\ wipe[2] = "none"
    /\ wipe' = [wipe EXCEPT ![2] = "ready"]
    /\ UNCHANGED <<nreq, pc, locals, uploads, art, resp, sent, overlap>>
    /\ UNCHANGED peer

NextWipe == Wipe \/ CallWipeAgain

SpecWipe == InitWipe /\ [][NextWipe]_vars

\* C12: whatever output.json held, it is the empty array after a wipe that
\* did not fail, and again after a second wipe run right after the first.
C12_WipeIdempotent ==
    /\ (wipe[1] = "done" /\ wipe[2] \in {"none", "ready"}) => art = EmptyArray
    /\ wipe[2] = "done" => art = EmptyArray
    /\ (wipe[1] = "done" /\ wipe[2] = "failed") => art \in {EmptyArray, <<>>}

C12_Witness ==
    /\ wipe[1] = "done"
    /\ wipe[2] = "done"
    /\ art = EmptyArray

\* C13: in a batch processed by one handler, the staged file the extractor
\* is given holds the bytes of the file of this iteration, and the text it
\* returns is the text of those bytes, also when an earlier file of the batch
\* had the same name.
C13_ExtractsOwnBytes ==
    /\ pc = "extract" => uploads[file_path] = file.content
    /\ pc = "structure" => raw_text = extract_text_from_document(file.content)

C13_Witness ==
    /\ pc = "structure"
    /\ idx = 2
    /\ files[1].name = files[2].name
    /\ files[1].content # files[2].content
    /\ Len(all_detailed_data) = 1

\* the names under which a file is staged now
StagedNow == {n \in Names : uploads[n] # Absent}

\* C14: the uploads directory holds at most one staged file, that of the
\* file being processed, and none when the next file is about to be staged
\* or the loop has ended.
C14_AtMostOneStaged ==
    /\ Cardinality(StagedNow) <= 1
    /\ \A n \in StagedNow : pc \in {"extract", "structure", "release"} /\ n = file.name
    /\ pc = "stage" => StagedNow = {}

C14_Witness ==
    /\ pc = "extract"
    /\ idx = 2
    /\ files[1].name # files[2].name
    /\ StagedNow = {files[2].name}

\* the steps a background task can take
WipeMoves ==
    { <<"none", "scheduled">>, <<"scheduled", "ready">>, <<"ready", "open">>,
      <<"ready", "failed">>, <<"open", "done">>, <<"open", "failed">> }

\* C15: a call that returns has scheduled one wipe, after its persist; a call
\* that raises, in a per-file step or in persist, has scheduled none; a task
\* only moves forward, so it is never scheduled or run a second time and a
\* wipe that failed stays failed.
C15_OneWipePerSuccess ==
    /\ [](\A r \in Reqs :
            /\ r > nreq => wipe[r] = "none"
            /\ (r = nreq /\ pc = "returned") => wipe[r] = "scheduled"
            /\ (r = nreq /\ pc = "raised") => wipe[r] = "none"
            /\ sent[r] \in {SentDetail, SentPlain} => wipe[r] = "none"
            /\ sent[r] = SentRecords => wipe[r] \in {"ready", "open", "done", "failed"})
    /\ [][\A r \in Reqs :
            wipe'[r] # wipe[r] =>
                /\ <<wipe[r], wipe'[r]>> \in WipeMoves
                /\ wipe[r] = "none" => (r = nreq /\ pc = "schedule")]_vars

C15_Witness ==
    /\ pc = "idle"
    /\ sent[1] = SentRecords
    /\ wipe[1] = "failed"
    /\ sent[2] = SentPlain
    /\ wipe[2] = "none"

\* C16: the stream of every file whose processing has ended is closed: those
\* before the file of this iteration while the loop runs, and every file that
\* was started once the loop has ended or the exception has left the handler;
\* a stream found closed already stays closed.
C16_StreamsClosed ==
    /\ closed \subseteq staged
    /\ pc \in PerFile => 1..(idx - 1) \subseteq closed
    /\ pc \in Persisting \cup {"returned", "raised"} => closed = staged
    /\ pc \in Persisting \cup {"returned"} => closed = 1..Len(files)

C16_Witness ==
    /\ pc = "raised"
    /\ FileFailed
    /\ exc[3] = "StructuringError"
    /\ idx = 2
    /\ closed = {1, 2}

\* ------------------------------------------------- a second worker process
\* The server may run several worker processes on one uploads directory.
\* The second worker runs the same per-file step (lines 76-98) for one file
\* of one request; of its state only what it stages, reads and removes
\* matters here.
handlerVars == <<nreq, pc, files, idx, closed, staged, raw_text, all_detailed_data,
                 exc, fpos, art, resp, sent, wipe, overlap>>

\* lines 76-79 in the second worker
PeerStage ==
    /\ peer.pc = "idle"
    /\ \E f \in UploadedFile :
        /\ uploads' = [uploads EXCEPT ![f.name] = f.content]
        /\ peer' = [pc |-> "extract", file |-> f, read |-> ""]
    /\ UNCHANGED handlerVars

\* line 81 in the second worker: the bytes its extractor finds at its path
PeerExtract ==
    /\ peer.pc = "extract"
    /\ peer' = [peer EXCEPT !.pc = "release", !.read = uploads[peer.file.name]]
    /\ UNCHANGED <<handlerVars, uploads>>

\* lines 94-98 in the second worker
PeerRelease ==
    /\ peer.pc = "release"
    /\ uploads' = [uploads EXCEPT ![peer.file.name] = Absent]
    /\ peer' = [peer EXCEPT !.pc = "done"]
    /\ UNCHANGED handlerVars

\* one request in each of the two workers
FirstBegin == nreq = 0 /\ Begin

NextWorkers ==
    \/ FirstBegin
    \/ Stage
    \/ Extract
    \/ Structure
    \/ Release
    \/ PersistOpen
    \/ PersistWrite
    \/ ScheduleReturn
    \/ PeerStage
    \/ PeerExtract
    \/ PeerRelease

SpecWorkers == Init /\ [][NextWorkers]_vars

\* the second worker has a file of the same name as the file of this iteration
SameName == peer.pc # "idle" /\ peer.file.name = file.name

\* C17: nothing keeps two requests in flight in two workers apart: what the
\* extractor of one finds at its path differs from the bytes that request
\* staged exactly because the other staged or removed a file of the same
\* name, and the text and the record are then built from the other's bytes.
C17_CollisionUnmitigated ==
    /\ (pc = "extract" /\ uploads[file_path] # file.content) => SameName
    /\ (pc = "structure" /\ raw_text # extract_text_from_document(file.content)) =>
          /\ SameName
          /\ raw_text = extract_text_from_document(peer.file.content)
    /\ (peer.pc \in {"release", "done"} /\ peer.read # peer.file.content) =>
          \E i \in staged : files[i].name = peer.file.name
    /\ (pc = "returned" /\ resp.records # Expected(files)) =>
          /\ peer.pc # "idle"
          /\ \E i \in 1..Len(files) :
                /\ files[i].name = peer.file.name
                /\ resp.records[i] = RecordOf([name |-> files[i].name,
                                               content |-> peer.file.content])

\* the other worker has overwritten the staged file before it is extracted
C17_Witness ==
    /\ pc = "extract"
    /\ peer.pc = "extract"
    /\ peer.file.name = file.name
    /\ uploads[file_path] = peer.file.content
    /\ uploads[file_path] # file.content

\* C18: from the completion of persist until the response of the call is
\* computed and sent, output.json holds the result of the call, and no wipe
\* changes output.json while persist is writing.
C18_PersistedUntilResponse ==
    /\ pc \in {"schedule", "returned"} => art = JsonDump(all_detailed_data)
    /\ ~overlap

====
